---------------------------- MODULE Spec2Model ----------------------------
(***************************************************************************)
(* Wilson-Cowan solvers of src/Day8/Day_NM.ipynb (act_fun, WC_solver,      *)
(* WC_solver_MW) as a state machine.                                        *)
(*                                                                          *)
(* Numbers.  The notebook computes in numpy float64.  The model computes    *)
(* with exact rationals extended by the three IEEE values that numpy's      *)
(* division by zero produces: a number is a pair <<n, d>>, in lowest terms  *)
(* with d > 0, or <<1, 0>> (inf), <<-1, 0>> (-inf), <<0, 0>> (nan).         *)
(* Rounding to 53 bits is not modelled: every statement below is about the  *)
(* exact value of each arithmetic expression of the source.                 *)
(*                                                                          *)
(* Arrays are sequences; index k of the source is index k+1 here.           *)
(***************************************************************************)
EXTENDS Integers, Sequences, FiniteSets, TLC

----------------------------------------------------------------------------
(* Exact arithmetic with inf and nan                                        *)

Abs(n) == IF n < 0 THEN -n ELSE n

Sgn(n) == IF n < 0 THEN -1 ELSE IF n > 0 THEN 1 ELSE 0

RECURSIVE GCD(_, _)
GCD(a, b) == IF b = 0 THEN a ELSE GCD(b, a % b)

\* n/d in lowest terms with a positive denominator (d # 0).
Q(n, d) ==
    LET g == GCD(Abs(n), Abs(d))
        s == IF d < 0 THEN -1 ELSE 1
    IN  <<(s * n) \div g, (s * d) \div g>>

Num(n) == <<n, 1>>

Zero == <<0, 1>>

One == <<1, 1>>

NaN == <<0, 0>>

Inf(s) == <<s, 0>>

IsFinite(x) == x[2] # 0

IsNaN(x) == x = NaN

IsInf(x) == x[2] = 0 /\ x[1] # 0

Neg(x) == <<-x[1], x[2]>>

Add(x, y) ==
    IF IsNaN(x) \/ IsNaN(y) THEN NaN
    ELSE IF IsInf(x) /\ IsInf(y) THEN (IF x = y THEN x ELSE NaN)
    ELSE IF IsInf(x) THEN x
    ELSE IF IsInf(y) THEN y
    ELSE LET g == GCD(x[2], y[2])
             l == (x[2] \div g) * y[2]
         IN  Q(x[1] * (l \div x[2]) + y[1] * (l \div y[2]), l)

Sub(x, y) == Add(x, Neg(y))

Mul(x, y) ==
    IF IsNaN(x) \/ IsNaN(y) THEN NaN
    ELSE IF IsInf(x) \/ IsInf(y)
         THEN (IF x[1] = 0 \/ y[1] = 0 THEN NaN ELSE Inf(Sgn(x[1]) * Sgn(y[1])))
    ELSE LET g1 == GCD(Abs(x[1]), y[2])
             g2 == GCD(Abs(y[1]), x[2])
         IN  Q((x[1] \div g1) * (y[1] \div g2), (x[2] \div g2) * (y[2] \div g1))

\* numpy's true division: x/0 is inf, -inf or nan (with a warning), never an error.
Div(x, y) ==
    IF IsNaN(x) \/ IsNaN(y) THEN NaN
    ELSE IF IsInf(y) THEN (IF IsInf(x) THEN NaN ELSE Zero)
    ELSE IF y[1] = 0 THEN (IF x[1] = 0 THEN NaN ELSE Inf(Sgn(x[1])))
    ELSE IF IsInf(x) THEN Inf(Sgn(x[1]) * Sgn(y[1]))
    ELSE Mul(x, Q(y[2], y[1]))

\* x < y; every comparison with nan is false.
Lt(x, y) ==
    IF IsNaN(x) \/ IsNaN(y) THEN FALSE
    ELSE IF x = y THEN FALSE
    ELSE IF IsInf(x) THEN x[1] < 0
    ELSE IF IsInf(y) THEN y[1] > 0
    ELSE x[1] * y[2] < y[1] * x[2]

Gt(x, y) == Lt(y, x)

Le(x, y) == Lt(x, y) \/ (x = y /\ ~IsNaN(x))

\* The least integer >= x, for finite x.
Ceil(x) == -((-x[1]) \div x[2])

AbsQ(x) == <<Abs(x[1]), x[2]>>

----------------------------------------------------------------------------
(* numpy helpers used by both solvers                                       *)

\* An activation without the rectification: z for every z.
act_fun_linear(z) == Mul(z, One)

\* A leaky rectifier: z for z > 0 and z/2 otherwise.
act_fun_leaky(z) == Mul(z, IF Gt(z, Zero) THEN One ELSE Q(1, 2))

\* act_fun(z) = z * (z > 0): the comparison is a bool, used as 1 or 0.
act_fun(z) == Mul(z, IF Gt(z, Zero) THEN One ELSE Zero)

\* act_fun on an array: numpy applies * and > element by element.
act_fun_array(z) == [j \in 1..Len(z) |-> act_fun(z[j])]

\* A grid length that counts the end point: floor(stop/step) + 1.
arange_len_inclusive(stop, step) ==
    LET q == Div(stop, step)
        n == (q[1] \div q[2]) + 1
    IN  IF n > 0 THEN n ELSE 0

\* len(np.arange(0, stop, step)) for step # 0: ceil(stop/step), or 0 when
\* that is negative.
arange_len(stop, step) ==
    LET n == Ceil(Div(stop, step))
    IN  IF n > 0 THEN n ELSE 0

\* A grid that starts one step late: step, 2*step, ...
arange_shifted(stop, step) == [k \in 1..arange_len(stop, step) |-> Mul(Num(k), step)]

\* np.arange(0, stop, step): the values 0, step, 2*step, ...
arange(stop, step) == [k \in 1..arange_len(stop, step) |-> Mul(Num(k - 1), step)]

\* Arrays that start at one: np.ones(n) for np.zeros(n).
ones(n) == [k \in 1..n |-> One]

\* np.zeros(n)
zeros(n) == [k \in 1..n |-> Zero]

----------------------------------------------------------------------------
(* State                                                                    *)

VARIABLES
    \* the notebook's parameters, the arguments of the WC_solver call
    dt, T_end, I_E, I_I, w_EE, w_EI, w_IE, w_II, tau_E, tau_I,
    \* WC_solver: its arrays, its loop index and where it is
    T, r_E, r_I, i, pc, err,
    \* the arguments of the WC_solver_MW call
    I, W, tau,
    \* WC_solver_MW: its arrays, its loop index and where it is
    N, T_MW, r, i_MW, pc_MW, err_MW,
    \* a call of act_fun on its own: the argument, the value returned, and
    \* whether it has returned
    z, g, pc_act,
    \* FF: its arguments, the four names its result is assigned to, the
    \* figures drawn so far, where the call is, and every result returned so
    \* far (argument and result of each call, in call order)
    x0, plotting, freqs, X, max_freq, max_mag, figures, pc_FF, err_FF, returned_FF,
    \* arrays as objects: how many np.zeros has created, which of them
    \* WC_solver_MW's r names, the trajectories of earlier calls the notebook
    \* still holds (the array, its content now and its content when it was
    \* returned), and the arguments as they were when the call began
    allocated, r_buf, kept, args_at_call,
    \* the Caesar cipher cell: the message, the key, the two results, where
    \* the cell is and the error that stopped it
    original, shift, encoded, decoded, pc_cipher, err_cipher

params == <<dt, T_end, I_E, I_I, w_EE, w_EI, w_IE, w_II, tau_E, tau_I>>

solver == <<T, r_E, r_I, i, pc, err>>

args_MW == <<I, W, tau>>

solver_MW == <<N, T_MW, r, i_MW, pc_MW, err_MW>>

activation == <<z, g, pc_act>>

spectrum == <<x0, plotting, freqs, X, max_freq, max_mag, figures, pc_FF, err_FF, returned_FF>>

memory == <<allocated, r_buf, kept, args_at_call>>

cipher == <<original, shift, encoded, decoded, pc_cipher, err_cipher>>

vars == <<params, solver, args_MW, solver_MW, activation, spectrum, memory, cipher>>

\* What a call of WC_solver leaves alone, and what a call of WC_solver_MW does.
outside_WC_solver == <<params, args_MW, solver_MW, activation, spectrum, memory, cipher>>

outside_WC_solver_MW == <<params, solver, args_MW, activation, spectrum, cipher>>

----------------------------------------------------------------------------
(* WC_solver                                                                *)

\* A loop body that assigns r_E[i+1] before it computes dr_I, and reads the
\* new value there: what the source would do with its four lines interleaved.
WC_solver_body_sequential(rE, rI) ==
    LET dr_E == Mul(Div(dt, tau_E),
                    Add(Neg(rE), act_fun(Add(Add(Mul(w_EE, rE), Mul(w_EI, rI)), I_E))))
        nE   == Add(rE, dr_E)
        dr_I == Mul(Div(dt, tau_I),
                    Add(Neg(rI), act_fun(Add(Add(Mul(w_IE, nE), Mul(w_II, rI)), I_I))))
    IN  <<nE, Add(rI, dr_I)>>

\* A loop body that multiplies by the time constants instead of dividing.
WC_solver_body_times_tau(rE, rI) ==
    LET dr_E == Mul(Mul(dt, tau_E),
                    Add(Neg(rE), act_fun(Add(Add(Mul(w_EE, rE), Mul(w_EI, rI)), I_E))))
        dr_I == Mul(Mul(dt, tau_I),
                    Add(Neg(rI), act_fun(Add(Add(Mul(w_IE, rE), Mul(w_II, rI)), I_I))))
    IN  <<Add(rE, dr_E), Add(rI, dr_I)>>

\* A loop body with the sign of the leak term lost: +r_E[i] for -r_E[i].
WC_solver_body_plus_leak(rE, rI) ==
    LET dr_E == Mul(Div(dt, tau_E),
                    Add(rE, act_fun(Add(Add(Mul(w_EE, rE), Mul(w_EI, rI)), I_E))))
        dr_I == Mul(Div(dt, tau_I),
                    Add(rI, act_fun(Add(Add(Mul(w_IE, rE), Mul(w_II, rI)), I_I))))
    IN  <<Add(rE, dr_E), Add(rI, dr_I)>>

\* A loop body with the leak term of the inhibitory population left out:
\* dr_I = dt/tau_I * g(...) for dt/tau_I * (-r_I[i] + g(...)).
WC_solver_body_no_leak_I(rE, rI) ==
    LET dr_E == Mul(Div(dt, tau_E),
                    Add(Neg(rE), act_fun(Add(Add(Mul(w_EE, rE), Mul(w_EI, rI)), I_E))))
        dr_I == Mul(Div(dt, tau_I),
                    act_fun(Add(Add(Mul(w_IE, rE), Mul(w_II, rI)), I_I)))
    IN  <<Add(rE, dr_E), Add(rI, dr_I)>>

\* One pass of the loop body on the values of step i, in the order of the
\* source: dr_E and dr_I are both computed before either array is assigned.
\* The result is <<r_E[i+1], r_I[i+1]>>.
WC_solver_body(rE, rI) ==
    LET dr_E == Mul(Div(dt, tau_E),
                    Add(Neg(rE), act_fun(Add(Add(Mul(w_EE, rE), Mul(w_EI, rI)), I_E))))
        dr_I == Mul(Div(dt, tau_I),
                    Add(Neg(rI), act_fun(Add(Add(Mul(w_IE, rE), Mul(w_II, rI)), I_I))))
    IN  <<Add(rE, dr_E), Add(rI, dr_I)>>

\* The call up to the loop: the grid and the two zero arrays.  np.arange
\* refuses a zero step (ZeroDivisionError for integers, ValueError for
\* floats).
WC_solver_call ==
    /\ pc = "call"
    /\ IF dt = Zero
       THEN /\ pc' = "raised"
            /\ err' \in {"ZeroDivisionError", "ValueError"}
            /\ UNCHANGED <<T, r_E, r_I, i>>
       ELSE /\ T' = arange(T_end, dt)
            /\ r_E' = zeros(arange_len(T_end, dt))
            /\ r_I' = zeros(arange_len(T_end, dt))
            /\ i' = 0
            /\ pc' = "loop"
            /\ err' = err
    /\ UNCHANGED outside_WC_solver

\* One iteration of "for i in range(len(T)-1)".  dt/tau_E and dt/tau_I divide
\* Python numbers: a zero time constant raises ZeroDivisionError before
\* anything is assigned.
WC_solver_step ==
    /\ pc = "loop"
    /\ i < Len(T) - 1
    /\ IF tau_E = Zero \/ tau_I = Zero
       THEN /\ pc' = "raised"
            /\ err' = "ZeroDivisionError"
            /\ UNCHANGED <<T, r_E, r_I, i>>
       ELSE LET next == WC_solver_body(r_E[i + 1], r_I[i + 1])
            IN  /\ r_E' = [r_E EXCEPT ![i + 2] = next[1]]
                /\ r_I' = [r_I EXCEPT ![i + 2] = next[2]]
                /\ i' = i + 1
                /\ UNCHANGED <<T, pc, err>>
    /\ UNCHANGED outside_WC_solver

\* A return that does not wait for the loop to finish.
WC_solver_return_early ==
    /\ pc = "loop"
    /\ pc' = "returned"
    /\ UNCHANGED <<T, r_E, r_I, i, err>>
    /\ UNCHANGED outside_WC_solver

\* The loop is over: return r_E, r_I, T.
WC_solver_return ==
    /\ pc = "loop"
    /\ ~(i < Len(T) - 1)
    /\ pc' = "returned"
    /\ UNCHANGED <<T, r_E, r_I, i, err>>
    /\ UNCHANGED outside_WC_solver

WC_solver ==
    \/ WC_solver_call
    \/ WC_solver_step
    \/ WC_solver_return

----------------------------------------------------------------------------
(* WC_solver_MW                                                             *)

\* numpy broadcasting of two one-dimensional arrays of lengths a and b: the
\* length of the result, or 0 when numpy raises ValueError (operands could not
\* be broadcast together).
Bcast(a, b) ==
    IF a = b THEN a
    ELSE IF a = 1 THEN b
    ELSE IF b = 1 THEN a
    ELSE 0

\* Element j of an array under broadcasting: a length-1 array repeats.
El(x, j) == IF Len(x) = 1 THEN x[1] ELSE x[j]

\* r[:, i]
column(k) == [p \in 1..N |-> r[p][k + 1]]

\* sum over j = 1..n of row[j] * x[j]
RECURSIVE Dot(_, _, _)
Dot(row, x, n) == IF n = 0 THEN Zero ELSE Add(Dot(row, x, n - 1), Mul(row[n], x[n]))

\* A product that reads W by columns: entry (j, p) weights population j in
\* population p's input.
I_rec_transposed(x, p) == Dot([j \in 1..N |-> W[j][p]], x, N)

\* Element p of np.array(np.matrix(W) * np.matrix(r[:,i]).T).T[0]: row p of W
\* times the column x.
I_rec(x, p) == Dot(W[p], x, N)

\* dt/tau with the first time constant used for every population.
dt_over_tau_first(p) == Div(dt, tau[1])

\* Element p of dt/tau: tau is an array, so the division is numpy's, element
\* by element, and a zero time constant gives inf or nan, not an error.
dt_over_tau(p) == Div(dt, El(tau, p))

\* Whether the loop body runs without a ValueError: the matrix product needs
\* as many columns in W as r has rows, every elementwise operation needs
\* lengths that broadcast, and the result must fit a column of r.
WC_solver_MW_shapes_ok ==
    LET s1 == Bcast(N, Len(I))
        s2 == IF s1 = 0 THEN 0 ELSE Bcast(N, s1)
        s3 == IF s2 = 0 THEN 0 ELSE Bcast(Len(tau), s2)
        s4 == IF s3 = 0 THEN 0 ELSE Bcast(N, s3)
    IN  /\ \A p \in 1..N : Len(W[p]) = N
        /\ s4 = N

\* The loop body on column x = r[:, i], for shapes that fit: the new column
\* r[:, i+1], each elementwise operation of the source written out for
\* element p.
WC_solver_MW_body(x) ==
    [p \in 1..N |->
        LET dr == Mul(dt_over_tau(p),
                      Add(Neg(x[p]), act_fun(Add(I_rec(x, p), El(I, p)))))
        IN  Add(x[p], dr)]

\* An np.zeros that hands out the array of the previous call again.
np_zeros_reused == IF r_buf = 0 THEN allocated + 1 ELSE r_buf

\* The array np.zeros creates is a new one: no name is bound to it yet.
np_zeros_buffer == allocated + 1

\* What the notebook sees in the trajectories it holds after `value` was
\* written into array b: a held trajectory changes when it is that array.
seen_after_write(b, value) ==
    [k \in 1..Len(kept) |->
        IF kept[k].buf = b THEN [kept[k] EXCEPT !.r = value] ELSE kept[k]]

WC_solver_MW_call ==
    /\ pc_MW = "call"
    /\ N' = Len(W)
    /\ args_at_call' = <<I, W, tau>>
    /\ IF dt = Zero
       THEN /\ pc_MW' = "raised"
            /\ err_MW' \in {"ZeroDivisionError", "ValueError"}
            /\ UNCHANGED <<T_MW, r, i_MW, allocated, r_buf, kept>>
       ELSE /\ T_MW' = arange(T_end, dt)
            /\ r' = [p \in 1..Len(W) |-> zeros(arange_len(T_end, dt))]
            /\ r_buf' = np_zeros_buffer
            /\ allocated' = allocated + 1
            /\ kept' = seen_after_write(r_buf', r')
            /\ i_MW' = 0
            /\ pc_MW' = "loop"
            /\ err_MW' = err_MW
    /\ UNCHANGED outside_WC_solver_MW

WC_solver_MW_step ==
    /\ pc_MW = "loop"
    /\ i_MW < Len(T_MW) - 1
    /\ IF ~WC_solver_MW_shapes_ok
       THEN /\ pc_MW' = "raised"
            /\ err_MW' = "ValueError"
            /\ UNCHANGED <<N, T_MW, r, i_MW, memory>>
       ELSE LET next == WC_solver_MW_body(column(i_MW))
            IN  /\ r' = [p \in 1..N |-> [r[p] EXCEPT ![i_MW + 2] = next[p]]]
                /\ kept' = seen_after_write(r_buf, r')
                /\ i_MW' = i_MW + 1
                /\ UNCHANGED <<N, T_MW, pc_MW, err_MW, allocated, r_buf, args_at_call>>
    /\ UNCHANGED outside_WC_solver_MW

WC_solver_MW_return ==
    /\ pc_MW = "loop"
    /\ ~(i_MW < Len(T_MW) - 1)
    /\ pc_MW' = "returned"
    /\ UNCHANGED <<N, T_MW, r, i_MW, err_MW, memory>>
    /\ UNCHANGED outside_WC_solver_MW

WC_solver_MW ==
    \/ WC_solver_MW_call
    \/ WC_solver_MW_step
    \/ WC_solver_MW_return

----------------------------------------------------------------------------
(* The notebook's calls                                                     *)

\* The longest time grid explored.
MaxGrid == 4

\* Whether the grid of a (dt, T_end) pair is within the explored lengths.
GridWithin(d, e) == IF d = Zero THEN TRUE ELSE arange_len(e, d) <= MaxGrid

\* Nothing has been called yet.
NotCalled ==
    /\ T = <<>> /\ r_E = <<>> /\ r_I = <<>> /\ i = 0 /\ pc = "call" /\ err = ""
    /\ N = 0 /\ T_MW = <<>> /\ r = <<>> /\ i_MW = 0 /\ pc_MW = "call" /\ err_MW = ""
    /\ allocated = 0 /\ r_buf = 0 /\ kept = <<>> /\ args_at_call = <<>>

\* No call of act_fun on its own.
NoActivationCall == z = Zero /\ g = Zero /\ pc_act = "none"

\* The cipher cell has not run.
NoCipherCall ==
    /\ original = <<>> /\ shift = 0 /\ encoded = <<>> /\ decoded = <<>>
    /\ pc_cipher = "none" /\ err_cipher = ""

\* No call of FF.
NoSpectrumCall ==
    /\ x0 = <<>> /\ plotting = FALSE
    /\ freqs = <<>> /\ X = <<>> /\ max_freq = Zero /\ max_mag = Zero
    /\ figures = 0 /\ pc_FF = "none" /\ err_FF = "" /\ returned_FF = <<>>

\* The two-population arguments of WC_solver_MW built from the scalars.
TwoPopulationArgs ==
    /\ W = <<<<w_EE, w_EI>>, <<w_IE, w_II>>>>
    /\ tau = <<tau_E, tau_I>>
    /\ I = <<I_E, I_I>>

\* Two coupled populations, every weight non-zero.
CoupledWeights == {Num(-1), Q(1, 2), Num(2)}

InitCoupled ==
    /\ I_E \in {Zero, One, Num(2)}
    /\ I_I \in {Zero, One, Num(2)}
    /\ w_EE \in CoupledWeights /\ w_EI \in CoupledWeights
    /\ w_IE \in CoupledWeights /\ w_II \in CoupledWeights
    /\ tau_E \in {One, Num(2)}
    /\ tau_I \in {One, Num(2)}
    /\ dt \in {Q(1, 2), One}
    /\ T_end \in {One, Num(2), Q(5, 2)}
    /\ GridWithin(dt, T_end)

\* A single excitatory population: w_EI = w_IE = w_II = 0.
InitSinglePopulation ==
    /\ I_E \in {Zero, One, Num(2)}
    /\ I_I \in {Zero, One}
    /\ w_EE \in {Num(-3), Num(-1), Zero, Q(1, 2), One, Q(3, 2), Num(2)}
    /\ w_EI = Zero /\ w_IE = Zero /\ w_II = Zero
    /\ tau_E \in {One, Num(2)}
    /\ tau_I \in {One, Num(2)}
    /\ dt \in {Q(1, 2), One, Num(3)}
    /\ T_end \in {One, Num(2), Q(5, 2), Num(10)}
    /\ GridWithin(dt, T_end)

\* The weights and drives of the first simulation, with time constants, step
\* and horizon of either sign or zero: the solvers take what they are given.
InitAnySign ==
    /\ I_E = One /\ I_I = One
    /\ w_EE = Q(1, 2) /\ w_IE = Q(1, 2) /\ w_EI = Q(-1, 2) /\ w_II = Q(-1, 2)
    /\ tau_E \in {Num(-1), Zero, One}
    /\ tau_I \in {Num(-1), Zero, One}
    /\ dt \in {Num(-1), Zero, Q(1, 2), One}
    /\ T_end \in {Num(-1), Zero, Num(2)}
    /\ GridWithin(dt, T_end)

Init ==
    /\ InitCoupled \/ InitSinglePopulation \/ InitAnySign
    /\ TwoPopulationArgs
    /\ NotCalled
    /\ NoActivationCall
    /\ NoSpectrumCall
    /\ NoCipherCall

\* The notebook runs the scalar solver, then the matrix-wise solver on the
\* same parameters.
Next ==
    \/ WC_solver
    \/ (pc \in {"returned", "raised"} /\ WC_solver_MW)

Spec == Init /\ [][Next]_vars

\* The first simulation with time constants, step and horizon of either sign
\* or zero, run to its end: the notebook is a sequential program, and a cell
\* that can take a step takes it.
InitRuns ==
    /\ InitAnySign
    /\ TwoPopulationArgs
    /\ NotCalled
    /\ NoActivationCall
    /\ NoSpectrumCall
    /\ NoCipherCall

\* Two populations with drives and weights of either sign, and steps below,
\* at and above the time constants.
InitSigns ==
    /\ I_E \in {Num(-1), Num(2)}
    /\ I_I \in {Num(-1), Num(2)}
    /\ w_EE \in {Num(-2), One} /\ w_EI \in {Num(-2), One}
    /\ w_IE \in {Num(-2), One} /\ w_II \in {Num(-2), One}
    /\ tau_E \in {One, Num(2)}
    /\ tau_I \in {One, Num(2)}
    /\ dt \in {One, Num(2)}
    /\ T_end \in {Num(3), Num(5)}
    /\ GridWithin(dt, T_end)
    /\ TwoPopulationArgs
    /\ NotCalled
    /\ NoActivationCall
    /\ NoSpectrumCall
    /\ NoCipherCall

SpecSigns == InitSigns /\ [][Next]_vars

\* does to pc and i alone.  While pc = "loop" no other step is possible, so
\* this is enabled exactly when WC_solver_step is and holds of exactly its
\* steps.
WC_solver_pass ==
    /\ pc = "loop"
    /\ i < Len(T) - 1
    /\ \/ (pc' = "loop" /\ i' = i + 1)
       \/ (pc' = "raised" /\ i' = i)

\* The same for WC_solver_MW_step, which runs once WC_solver is over.
WC_solver_MW_pass ==
    /\ pc \in {"returned", "raised"}
    /\ pc_MW = "loop"
    /\ i_MW < Len(T_MW) - 1
    /\ \/ (pc_MW' = "loop" /\ i_MW' = i_MW + 1)
       \/ (pc_MW' = "raised" /\ i_MW' = i_MW)

\* The interpreter goes on: a call that is pending is made, a loop that has
\* a pass left makes it, a loop that is over returns.
Runs ==
    /\ WF_vars(WC_solver_call)
    /\ WF_<<pc, i>>(WC_solver_pass)
    /\ WF_vars(WC_solver_return)
    /\ WF_vars(pc \in {"returned", "raised"} /\ WC_solver_MW_call)
    /\ WF_<<pc_MW, i_MW>>(WC_solver_MW_pass)
    /\ WF_vars(pc \in {"returned", "raised"} /\ WC_solver_MW_return)

SpecRuns == InitRuns /\ [][Next]_vars /\ Runs

----------------------------------------------------------------------------
(* WC_solver_MW on arrays of any shape                                      *)

\* The largest number of populations, and of rows, columns and entries of the
\* arrays handed to WC_solver_MW.
MaxN == 3

\* Two weight patterns with entries in {-3/2, -1, ..., 3/2}, neither symmetric,
\* and the pattern with every entry zero left out.
WeightA(p, j) == Q(((3 * p + 5 * j) % 7) - 3, 2)

WeightB(p, j) == Q(((p * p + 2 * j) % 5) - 2, 1)

DriveA(p) == Num(p % 3)

DriveB(p) == Q(1 + (p % 2), 2)

TauA(p) == Num(1 + (p % 2))

TauB(p) == Num(2)

\* Time constants of either sign, and zero.
TauC(p) == Num(p - 2)

InitMW ==
    /\ \E R \in 1..MaxN, C \in 1..MaxN :
          W \in {[p \in 1..R |-> [j \in 1..C |-> WeightA(p, j)]],
                 [p \in 1..R |-> [j \in 1..C |-> WeightB(p, j)]]}
    /\ \E L \in 1..MaxN :
          I \in {[p \in 1..L |-> DriveA(p)], [p \in 1..L |-> DriveB(p)]}
    /\ \E L \in 1..MaxN :
          tau \in {[p \in 1..L |-> TauA(p)], [p \in 1..L |-> TauB(p)],
                   [p \in 1..L |-> TauC(p)]}
    /\ dt \in {Zero, Q(1, 2), One}
    /\ T_end \in {One, Num(2)}
    /\ I_E = One /\ I_I = One
    /\ w_EE = Q(1, 2) /\ w_IE = Q(1, 2) /\ w_EI = Q(-1, 2) /\ w_II = Q(-1, 2)
    /\ tau_E = One /\ tau_I = One
    /\ NotCalled
    /\ NoActivationCall
    /\ NoSpectrumCall
    /\ NoCipherCall

SpecMW == InitMW /\ [][WC_solver_MW]_vars

----------------------------------------------------------------------------
(* act_fun on its own                                                       *)

\* The arguments are the fractions n/d with |n| <= MaxNum and 1 <= d <= MaxDen,
\* and the arrays of at most MaxLen of the values in ArrayValues.
MaxNum == 6

MaxDen == 4

MaxLen == 3

Fractions == {Q(n, d) : n \in (-MaxNum)..MaxNum, d \in 1..MaxDen}

ArrayValues == {Q(-3, 2), Zero, Q(2, 3)}

Arrays == UNION {[1..n -> ArrayValues] : n \in 0..MaxLen}

act_fun_call ==
    /\ pc_act = "call"
    /\ g' = act_fun(z)
    /\ pc_act' = "returned"
    /\ UNCHANGED <<z, params, solver, args_MW, solver_MW, spectrum, memory, cipher>>

act_fun_array_call ==
    /\ pc_act = "call_array"
    /\ g' = act_fun_array(z)
    /\ pc_act' = "returned_array"
    /\ UNCHANGED <<z, params, solver, args_MW, solver_MW, spectrum, memory, cipher>>

InitAct ==
    /\ \/ (z \in Fractions /\ pc_act = "call")
       \/ (z \in Arrays /\ pc_act = "call_array")
    /\ g = Zero
    /\ dt = One /\ T_end = One
    /\ I_E = One /\ I_I = One
    /\ w_EE = Q(1, 2) /\ w_IE = Q(1, 2) /\ w_EI = Q(-1, 2) /\ w_II = Q(-1, 2)
    /\ tau_E = One /\ tau_I = One
    /\ TwoPopulationArgs
    /\ NotCalled
    /\ NoSpectrumCall
    /\ NoCipherCall

NextAct ==
    \/ act_fun_call
    \/ act_fun_array_call

SpecAct == InitAct /\ [][NextAct]_vars

----------------------------------------------------------------------------
(* FF: the spectrum of a signal                                             *)

\* Complex numbers are pairs <<re, im>>.
CAdd(a, b) == <<Add(a[1], b[1]), Add(a[2], b[2])>>

CMul(a, b) ==
    <<Sub(Mul(a[1], b[1]), Mul(a[2], b[2])), Add(Mul(a[1], b[2]), Mul(a[2], b[1]))>>

\* The square root of a rational q >= 0, kept as its radicand: it is rational
\* only for squares.  Roots compare as their radicands do.
Sqrt(q) == [sqrt |-> q]

MagLt(a, b) == Lt(a.sqrt, b.sqrt)

\* abs of a complex number: sqrt(re^2 + im^2).
np_abs(c) == Sqrt(Add(Mul(c[1], c[1]), Mul(c[2], c[2])))

\* np.nanmean: the mean of the entries that are not nan (nan, with a warning,
\* when there is none).
RECURSIVE nansum(_, _)
nansum(a, n) ==
    IF n = 0 THEN Zero
    ELSE Add(nansum(a, n - 1), IF IsNaN(a[n]) THEN Zero ELSE a[n])

RECURSIVE nancount(_, _)
nancount(a, n) ==
    IF n = 0 THEN 0
    ELSE nancount(a, n - 1) + (IF IsNaN(a[n]) THEN 0 ELSE 1)

nanmean(a) == Div(nansum(a, Len(a)), Num(nancount(a, Len(a))))

\* The signal lengths explored: those whose roots of unity exp(-2*pi*i*m/n)
\* are rational (1, -1, i, -i), and the empty signal.
SignalLengths == {0, 1, 2, 4}

\* exp(-2*pi*i*m/n) for n in {1, 2, 4}: a power of -i.
twiddle(n, m) ==
    LET q == (m * (4 \div n)) % 4
    IN  CASE q = 0 -> <<One, Zero>>
          [] q = 1 -> <<Zero, Num(-1)>>
          [] q = 2 -> <<Num(-1), Zero>>
          [] q = 3 -> <<Zero, One>>

\* The first j terms of bin k of the transform: sum of x[m] * exp(-2*pi*i*m*k/n).
RECURSIVE fft_bin(_, _, _)
fft_bin(x, k, j) ==
    IF j = 0 THEN <<Zero, Zero>>
    ELSE CAdd(fft_bin(x, k, j - 1), CMul(<<x[j], Zero>>, twiddle(Len(x), (j - 1) * k)))

\* The first n bins of the transform of x.
RECURSIVE fft_bins(_, _)
fft_bins(x, n) ==
    IF n = 0 THEN <<>> ELSE Append(fft_bins(x, n - 1), fft_bin(x, n - 1, Len(x)))

\* fftpack.fft of a real signal of 1, 2 or 4 points.
fft(x) == fft_bins(x, Len(x))

\* The first m entries of fftpack.fftfreq(n) * f_s: the bins 0, 1, ...,
\* (n-1) div 2, then the negative bins -(n div 2), ..., -1, each divided by n
\* and multiplied by f_s.
RECURSIVE fftfreq_times(_, _, _)
fftfreq_times(n, f_s, m) ==
    IF m = 0 THEN <<>>
    ELSE Append(fftfreq_times(n, f_s, m - 1),
                Mul(IF m - 1 <= (n - 1) \div 2 THEN Q(m - 1, n) ELSE Q(m - 1 - n, n), f_s))

\* The first n entries of a - m, for an array a and a number m.
RECURSIVE minus(_, _, _)
minus(a, m, n) == IF n = 0 THEN <<>> ELSE Append(minus(a, m, n - 1), Sub(a[n], m))

\* The first n entries of abs(c), for a complex array c.
RECURSIVE abs_array(_, _)
abs_array(c, n) == IF n = 0 THEN <<>> ELSE Append(abs_array(c, n - 1), np_abs(c[n]))

\* An argmax that returns the last of the largest entries.
argmax_last(a) ==
    CHOOSE k \in 1..Len(a) :
        /\ \A j \in 1..Len(a) : ~MagLt(a[k], a[j])
        /\ \A j \in (k + 1)..Len(a) : MagLt(a[j], a[k])

\* np.argmax: the first of the largest entries; the first nan when there is
\* one.  (An index of the model: the source's index plus one.)
argmax(a) ==
    IF \E k \in 1..Len(a) : IsNaN(a[k].sqrt)
    THEN CHOOSE k \in 1..Len(a) :
            IsNaN(a[k].sqrt) /\ \A j \in 1..(k - 1) : ~IsNaN(a[j].sqrt)
    ELSE CHOOSE k \in 1..Len(a) :
            /\ \A j \in 1..Len(a) : ~MagLt(a[k], a[j])
            /\ \A j \in 1..(k - 1) : MagLt(a[j], a[k])

\* The number of calls of one function explored.
MaxCalls == 2

\* FF(x0, plotting), from its first line to its return.  The sampling
\* frequency is computed from the notebook's dt: FF has no parameter for it.
\* 1000/dt divides Python numbers (ZeroDivisionError for dt = 0), and
\* fftpack.fft refuses an empty array (ValueError).
FF ==
    /\ pc_FF \in {"call", "returned"}
    /\ Len(returned_FF) < MaxCalls
    /\ IF dt = Zero
       THEN /\ pc_FF' = "raised"
            /\ err_FF' = "ZeroDivisionError"
            /\ UNCHANGED <<freqs, X, max_freq, max_mag, figures, returned_FF>>
       ELSE IF Len(x0) = 0
       THEN /\ pc_FF' = "raised"
            /\ err_FF' = "ValueError"
            /\ UNCHANGED <<freqs, X, max_freq, max_mag, figures, returned_FF>>
       ELSE LET f_s == Div(Num(1000), dt)
                x   == minus(x0, nanmean(x0), Len(x0))
                X_  == fft(x)
                fr  == fftfreq_times(Len(x), f_s, Len(x))
                am  == argmax(abs_array(X_, Len(x)))
            IN  /\ freqs' = fr
                /\ X' = X_
                /\ max_freq' = fr[am]
                /\ max_mag' = np_abs(X_[am])
                /\ figures' = figures + (IF plotting THEN 1 ELSE 0)
                /\ pc_FF' = "returned"
                /\ err_FF' = err_FF
                /\ returned_FF' =
                      Append(returned_FF,
                             [x0 |-> x0, plotting |-> plotting, freqs |-> fr, X |-> X_,
                              max_freq |-> fr[am], max_mag |-> np_abs(X_[am])])
    /\ UNCHANGED <<x0, plotting, params, solver, args_MW, solver_MW, activation, memory, cipher>>

\* The values given to the notebook's dt.
SamplingSteps == {Zero, Q(1, 10), Q(1, 2), One}

\* The parameter cell is edited and run again between two calls of FF: dt is
\* assigned a new value.
assign_dt ==
    /\ pc_FF = "returned"
    /\ Len(returned_FF) < MaxCalls
    /\ dt' \in SamplingSteps \ {dt}
    /\ UNCHANGED <<T_end, I_E, I_I, w_EE, w_EI, w_IE, w_II, tau_E, tau_I>>
    /\ UNCHANGED <<solver, args_MW, solver_MW, activation, spectrum, memory, cipher>>

SignalValues == {Num(-1), Zero, Num(2)}

Signals == UNION {[1..n -> SignalValues] : n \in SignalLengths}

InitFF ==
    /\ x0 \in Signals
    /\ plotting \in BOOLEAN
    /\ dt \in SamplingSteps
    /\ freqs = <<>> /\ X = <<>> /\ max_freq = Zero /\ max_mag = Sqrt(Zero)
    /\ figures = 0 /\ pc_FF = "call" /\ err_FF = "" /\ returned_FF = <<>>
    /\ T_end = One
    /\ I_E = One /\ I_I = One
    /\ w_EE = Q(1, 2) /\ w_IE = Q(1, 2) /\ w_EI = Q(-1, 2) /\ w_II = Q(-1, 2)
    /\ tau_E = One /\ tau_I = One
    /\ TwoPopulationArgs
    /\ NotCalled
    /\ NoActivationCall
    /\ NoCipherCall

NextFF ==
    \/ FF
    \/ assign_dt

SpecFF == InitFF /\ [][NextFF]_vars

----------------------------------------------------------------------------
(* WC_solver_MW called more than once                                       *)

\* The notebook keeps the trajectory it got under a name of its own and calls
\* WC_solver_MW again, with the same arrays and the same or another horizon.
WC_solver_MW_again ==
    /\ pc_MW = "returned"
    /\ Len(kept) < MaxCalls - 1
    /\ kept' = Append(kept, [buf |-> r_buf, r |-> r, at_return |-> r])
    /\ T_end' \in {One, Num(2)}
    /\ pc_MW' = "call"
    /\ UNCHANGED <<dt, I_E, I_I, w_EE, w_EI, w_IE, w_II, tau_E, tau_I>>
    /\ UNCHANGED <<N, T_MW, r, i_MW, err_MW, allocated, r_buf, args_at_call>>
    /\ UNCHANGED <<solver, args_MW, activation, spectrum, cipher>>

NextTwoCalls ==
    \/ WC_solver_MW
    \/ WC_solver_MW_again

SpecTwoCalls == InitMW /\ [][NextTwoCalls]_vars

----------------------------------------------------------------------------
(* The Caesar cipher of src/unnamed/part_000                                *)

\* A character is its Unicode code point and a string a sequence of them:
\* a..z are 97..122, A..Z are 65..90.

\* abc = "abcdefghijklmnopqrstuvwxyz"
abc == [k \in 1..26 |-> 96 + k]

\* str.lower() of one character, a string of one or two characters.  A..Z
\* become a..z; U+0130 (capital I with dot above) becomes "i" followed by the
\* combining dot U+0307; the other characters used here (a..z, the space,
\* digits, punctuation, U+0307) are their own lower case.
lower_char(c) ==
    IF 65 <= c /\ c <= 90 THEN <<c + 32>>
    ELSE IF c = 304 THEN <<105, 775>>
    ELSE <<c>>

\* message.lower()
RECURSIVE lower(_)
lower(m) == IF m = <<>> THEN <<>> ELSE lower_char(Head(m)) \o lower(Tail(m))

\* shifted_position for a position of abc (0-based): position + shift, less
\* len(abc) once when that is len(abc) or more.
shifted_position(position, key) ==
    IF position + key >= Len(abc) THEN position + key - Len(abc) ELSE position + key

\* Whether abc[k] exists, for a Python index k: -len(abc) <= k < len(abc).
index_in_range(k) == -Len(abc) <= k /\ k < Len(abc)

\* abc[k] for a Python index k in range; a negative k counts from the end.
abc_at(k) == abc[(IF k < 0 THEN k + Len(abc) ELSE k) + 1]

\* construct_shifted_dictionary raises IndexError at the first letter whose
\* shifted position is out of range.
construct_raises(key) ==
    \E position \in 0..(Len(abc) - 1) : ~index_in_range(shifted_position(position, key))

\* The dictionary construct_shifted_dictionary returns: each letter of abc
\* mapped to the letter at its shifted position.
construct_shifted_dictionary(key) ==
    [letter \in {abc[k] : k \in 1..Len(abc)} |-> abc_at(shifted_position(letter - 97, key))]

\* A dictionary used as it is, not inverted.
not_inverted(d) == d

\* {inverted_letter: original_letter for original_letter, inverted_letter in
\* d.items()}: for a value that two keys map to, the later key stays.
inverted(d) ==
    [c \in {d[l] : l \in DOMAIN d} |->
        CHOOSE l \in DOMAIN d : d[l] = c /\ \A l2 \in DOMAIN d : d[l2] = c => l2 <= l]

\* d.get(letter, letter)
dict_get(d, letter) == IF letter \in DOMAIN d THEN d[letter] ELSE letter

\* The loop of encode_ceasar and decode_ceasar: every character of m looked
\* up in d and appended to the result.
RECURSIVE translate(_, _)
translate(d, m) ==
    IF m = <<>> THEN <<>> ELSE <<dict_get(d, Head(m))>> \o translate(d, Tail(m))

\* encoded = encode_ceasar(original, shift)
encode_ceasar ==
    /\ pc_cipher = "encode"
    /\ IF construct_raises(shift)
       THEN /\ pc_cipher' = "raised"
            /\ err_cipher' = "IndexError"
            /\ encoded' = encoded
       ELSE /\ encoded' = translate(construct_shifted_dictionary(shift), lower(original))
            /\ pc_cipher' = "decode"
            /\ err_cipher' = err_cipher
    /\ UNCHANGED <<original, shift, decoded>>
    /\ UNCHANGED <<params, solver, args_MW, solver_MW, activation, spectrum, memory>>

\* decoded = decode_ceasar(encoded, shift)
decode_ceasar ==
    /\ pc_cipher = "decode"
    /\ IF construct_raises(shift)
       THEN /\ pc_cipher' = "raised"
            /\ err_cipher' = "IndexError"
            /\ decoded' = decoded
       ELSE /\ decoded' = translate(inverted(construct_shifted_dictionary(shift)),
                                    lower(encoded))
            /\ pc_cipher' = "done"
            /\ err_cipher' = err_cipher
    /\ UNCHANGED <<original, shift, encoded>>
    /\ UNCHANGED <<params, solver, args_MW, solver_MW, activation, spectrum, memory>>

\* The longest message and the largest key explored.
MaxMessage == 3

MaxShift == 28

\* a, m, z, Z, the space, the digit 9 and U+0130.
Characters == {97, 109, 122, 90, 32, 57, 304}

Messages == UNION {[1..n -> Characters] : n \in 0..MaxMessage}

InitCaesar ==
    /\ original \in Messages
    /\ shift \in 0..MaxShift
    /\ encoded = <<>> /\ decoded = <<>>
    /\ pc_cipher = "encode" /\ err_cipher = ""
    /\ dt = One /\ T_end = One
    /\ I_E = One /\ I_I = One
    /\ w_EE = Q(1, 2) /\ w_IE = Q(1, 2) /\ w_EI = Q(-1, 2) /\ w_II = Q(-1, 2)
    /\ tau_E = One /\ tau_I = One
    /\ TwoPopulationArgs
    /\ NotCalled
    /\ NoActivationCall
    /\ NoSpectrumCall

NextCaesar ==
    \/ encode_ceasar
    \/ decode_ceasar

SpecCaesar == InitCaesar /\ [][NextCaesar]_vars

----------------------------------------------------------------------------
(* Vocabulary of the properties                                             *)

\* The rectifier as the specification words it: the value if positive, and
\* zero otherwise.
Relu(x) == IF Gt(x, Zero) THEN x ELSE Zero

Positive(x) == Gt(x, Zero)

\* WC_solver has built its arrays (it is in its loop, or has returned).
Running == pc \in {"loop", "returned"}

Running_MW == pc_MW \in {"loop", "returned"}

----------------------------------------------------------------------------
(* C1 *)

\* C1: on the two-population construction W = [[w_EE, w_EI], [w_IE, w_II]],
\* I = [I_E, I_I], tau = [tau_E, tau_I], with the same dt and T_end,
\* WC_solver_MW returns the time grid of WC_solver, and row 0 of its state is
\* r_E and row 1 is r_I, at every time index it has written and, once it has
\* returned, at all of them.
C1_MatrixSolverEqualsScalarSolver ==
    (pc = "returned" /\ Running_MW) =>
        /\ T_MW = T
        /\ N = 2
        /\ \A k \in 1..Len(T) :
              k <= i_MW + 1 => (r[1][k] = r_E[k] /\ r[2][k] = r_I[k])
        /\ pc_MW = "returned" => r = <<r_E, r_I>>

\* Both solvers have returned a trajectory of three points or more in which
\* the two populations differ, for weights that are not symmetric.
C1_Witness ==
    /\ pc = "returned" /\ pc_MW = "returned"
    /\ Len(T) >= 3
    /\ w_EI # w_IE
    /\ r_E[3] # r_I[3]
    /\ r_E[3] # Zero

----------------------------------------------------------------------------
(* C2 *)

\* C2: r_E[0] = r_I[0] = 0, and every written step i+1 of WC_solver is the
\* Euler step from the values of step i alone:
\*   tau_E * (r_E[i+1] - r_E[i]) = dt * (-r_E[i] + g(w_EE*r_E[i] + w_EI*r_I[i] + I_E))
\*   tau_I * (r_I[i+1] - r_I[i]) = dt * (-r_I[i] + g(w_IE*r_E[i] + w_II*r_I[i] + I_I))
\* with g the rectifier; r_I[i+1] is computed from r_E[i], not from r_E[i+1].
C2_SynchronousEulerUpdate ==
    Running =>
        /\ Len(T) >= 1 => (r_E[1] = Zero /\ r_I[1] = Zero)
        /\ \A k \in 1..i :
              /\ Mul(tau_E, Sub(r_E[k + 1], r_E[k]))
                   = Mul(dt, Sub(Relu(Add(Add(Mul(w_EE, r_E[k]), Mul(w_EI, r_I[k])), I_E)),
                                 r_E[k]))
              /\ Mul(tau_I, Sub(r_I[k + 1], r_I[k]))
                   = Mul(dt, Sub(Relu(Add(Add(Mul(w_IE, r_E[k]), Mul(w_II, r_I[k])), I_I)),
                                 r_I[k]))

\* WC_solver has returned after two steps or more, with w_IE # 0 and r_E
\* moving in the last step: reading r_E[i+1] for r_E[i] would change r_I.
C2_Witness ==
    /\ pc = "returned"
    /\ i >= 2
    /\ w_IE # Zero
    /\ r_E[i + 1] # r_E[i]
    /\ Positive(Add(Add(Mul(w_IE, r_E[i]), Mul(w_II, r_I[i])), I_I))

----------------------------------------------------------------------------
(* C3 *)

\* W is not square, or I or tau has not as many entries as W has rows.
DimensionMismatch ==
    \/ \E p \in 1..Len(W) : Len(W[p]) # Len(W)
    \/ Len(I) # Len(W)
    \/ Len(tau) # Len(W)

\* sum over j..N of W[p, j] * r[j, k-1]
RECURSIVE NetInput(_, _, _)
NetInput(p, k, j) ==
    IF j > N THEN Zero ELSE Add(Mul(W[p][j], r[j][k]), NetInput(p, k, j + 1))

\* C3: in WC_solver_MW, N is the dimension of W, column 0 of the state is zero
\* and, for every population p and every written step i+1,
\*   r[p, i+1] = r[p, i] + (dt/tau[p]) * (-r[p, i] + g(sum_j W[p, j]*r[j, i] + I[p]))
\* (for arrays whose dimensions agree and time constants that are not zero).
C3_MatrixEulerUpdate ==
    (Running_MW /\ ~DimensionMismatch /\ \A p \in 1..Len(tau) : tau[p] # Zero) =>
        /\ N = Len(W)
        /\ Len(r) = N
        /\ \A p \in 1..N :
              /\ Len(T_MW) >= 1 => r[p][1] = Zero
              /\ \A k \in 1..i_MW :
                    r[p][k + 1] =
                        Add(r[p][k],
                            Mul(Div(dt, tau[p]),
                                Add(Neg(r[p][k]), Relu(Add(NetInput(p, k, 1), I[p])))))

\* Three populations with different time constants, returned after two steps
\* or more, the last of which moved every population.
C3_Witness ==
    /\ pc_MW = "returned"
    /\ ~DimensionMismatch
    /\ N = 3
    /\ i_MW >= 2
    /\ tau[1] # tau[2] /\ tau[1] # Zero /\ tau[2] # Zero /\ tau[3] # Zero
    /\ \A p \in 1..3 : r[p][i_MW + 1] # r[p][i_MW]

----------------------------------------------------------------------------
(* C4 *)

\* G is the grid 0, dt, 2*dt, ... of ceil(T_end/dt) points, all below T_end:
\* its length n is the integer with (n-1)*dt < T_end <= n*dt.
IsTimeGrid(G) ==
    /\ Lt(Mul(Num(Len(G) - 1), dt), T_end)
    /\ Le(T_end, Mul(Num(Len(G)), dt))
    /\ Len(G) >= 1
    /\ G[1] = Zero
    /\ \A k \in 1..Len(G) : G[k] = Mul(Num(k - 1), dt) /\ Lt(G[k], T_end)
    /\ \A k \in 1..(Len(G) - 1) : Sub(G[k + 1], G[k]) = dt

----------------------------------------------------------------------------
(* C5 *)

\* C5: act_fun returns its argument when that is strictly positive and zero
\* when it is zero or negative; on an array it returns an array of the same
\* length with this rule applied to each element.
C5_Rectifier ==
    /\ pc_act = "returned" =>
          /\ Positive(z) => g = z
          /\ ~Positive(z) => g = Zero
    /\ pc_act = "returned_array" =>
          /\ Len(g) = Len(z)
          /\ \A j \in 1..Len(z) :
                /\ Positive(z[j]) => g[j] = z[j]
                /\ ~Positive(z[j]) => g[j] = Zero

\* act_fun has returned on an array that holds a negative, a zero and a
\* positive element.
C5_Witness ==
    /\ pc_act = "returned_array"
    /\ Len(z) = 3
    /\ Lt(z[1], Zero) /\ z[2] = Zero /\ Positive(z[3])
    /\ g = <<Zero, Zero, z[3]>>

----------------------------------------------------------------------------
(* C6 *)

\* C6: WC_solver_MW never returns a state for arrays whose dimensions
\* disagree (W not square, or I or tau not of length N): the call is rejected
\* before the loop, whatever the grid length.
C6_DimensionMismatchRejected ==
    DimensionMismatch =>
        /\ pc_MW # "returned"
        /\ pc_MW = "raised" => i_MW = 0

----------------------------------------------------------------------------
(* C7 *)

\* A time constant, the step or the horizon is zero or negative.
InvalidParameter ==
    \/ ~Positive(tau_E) \/ ~Positive(tau_I)
    \/ \E p \in 1..Len(tau) : ~Positive(tau[p])
    \/ ~Positive(dt)
    \/ ~Positive(T_end)

\* C7: neither solver returns a trajectory (empty, partial or non-finite)
\* when a time constant, dt or T_end is zero or negative.
C7_InvalidParameterRejected ==
    InvalidParameter => (pc # "returned" /\ pc_MW # "returned")

----------------------------------------------------------------------------
(* C8 *)

\* C8: for 0 < T_end <= dt WC_solver runs no update step and its grid and
\* both activity sequences have exactly one point: T = [0], r_E = [0],
\* r_I = [0].
C8_SinglePointGrid ==
    (Running /\ Positive(dt) /\ Positive(T_end) /\ Le(T_end, dt)) =>
        /\ i = 0
        /\ T = <<Zero>>
        /\ r_E = <<Zero>>
        /\ r_I = <<Zero>>

\* WC_solver has returned for a step equal to the horizon.
C8_Witness ==
    /\ pc = "returned"
    /\ Positive(dt)
    /\ dt = T_end

----------------------------------------------------------------------------
(* C9 *)

AllWeightsZero == w_EE = Zero /\ w_EI = Zero /\ w_IE = Zero /\ w_II = Zero

\* |a - b|
Dist(a, b) == AbsQ(Sub(a, b))

\* The first n values of x approach the drive from below, step by step: never
\* down, never past the drive, never farther from it.
Approaches(x, drive, n) ==
    \A k \in 1..(n - 1) :
        /\ Le(x[k], x[k + 1])
        /\ Le(x[k + 1], drive)
        /\ Le(Dist(drive, x[k + 1]), Dist(drive, x[k]))

\* C9 as stated: with every weight zero and a positive drive, for every
\* tau > 0 and 0 < dt < T_end the activity written so far approaches the
\* drive monotonically.
C9_MonotoneForEveryStep ==
    (Running /\ AllWeightsZero /\ Positive(dt) /\ Lt(dt, T_end)) =>
        /\ (Positive(I_E) /\ Positive(tau_E)) => Approaches(r_E, I_E, i + 1)
        /\ (Positive(I_I) /\ Positive(tau_I)) => Approaches(r_I, I_I, i + 1)

\* C9, amended: the same, for a step no longer than the time constant of the
\* population (dt <= tau).
C9_MonotoneForStepWithinTau ==
    (Running /\ AllWeightsZero /\ Positive(dt) /\ Lt(dt, T_end)) =>
        /\ (Positive(I_E) /\ Positive(tau_E) /\ Le(dt, tau_E)) =>
              Approaches(r_E, I_E, i + 1)
        /\ (Positive(I_I) /\ Positive(tau_I) /\ Le(dt, tau_I)) =>
              Approaches(r_I, I_I, i + 1)

\* WC_solver has returned four points for zero weights, a positive drive and
\* dt < tau_E, and r_E has risen at every step without reaching the drive.
C9_Witness ==
    /\ pc = "returned"
    /\ AllWeightsZero
    /\ Positive(I_E) /\ Lt(dt, tau_E)
    /\ Len(T) = 4
    /\ \A k \in 1..3 : Lt(r_E[k], r_E[k + 1])
    /\ Lt(r_E[4], I_E)

----------------------------------------------------------------------------
(* C10 *)

SinglePopulation == w_EI = Zero /\ w_IE = Zero /\ w_II = Zero

\* The largest value the excitatory activity settles at or moves around when
\* w_EE < 1: the fixed point I_E/(1 - w_EE) for 0 <= w_EE < 1, and the drive
\* I_E for w_EE < 0 (where the recurrent input only lowers the activity).
Envelope == IF Lt(w_EE, Zero) THEN I_E ELSE Div(I_E, Sub(One, w_EE))

\* The magnitude of r_E grows at every one of the first n - 1 steps.
MagnitudeIncreasing(n) ==
    \A k \in 1..(n - 1) : Lt(AbsQ(r_E[k]), AbsQ(r_E[k + 1]))

\* C10 as stated: for a single excitatory population with a positive drive,
\* for every tau_E > 0 and dt > 0, r_E stays bounded when w_EE < 1 and its
\* magnitude grows at every step when w_EE > 1.  Bounded is read as: within
\* twice the envelope, which holds of every trajectory that settles at the
\* fixed point or swings around it without growing (|r - r*| <= r*).
C10_BoundedBelowOneForEveryStep ==
    (Running /\ SinglePopulation /\ Positive(I_E) /\ Positive(tau_E) /\ Positive(dt)) =>
        /\ Lt(w_EE, One) =>
              \A k \in 1..(i + 1) : Le(AbsQ(r_E[k]), Mul(Num(2), Envelope))
        /\ Gt(w_EE, One) => MagnitudeIncreasing(i + 1)

\* C10, amended: r_E stays between 0 and the envelope when w_EE < 1 and
\* dt <= tau_E; its magnitude grows at every step when w_EE > 1, for every
\* tau_E > 0 and dt > 0.
C10_BoundedBelowOneForStepWithinTau ==
    (Running /\ SinglePopulation /\ Positive(I_E) /\ Positive(tau_E) /\ Positive(dt)) =>
        /\ (Lt(w_EE, One) /\ Le(dt, tau_E)) =>
              \A k \in 1..(i + 1) : Le(Zero, r_E[k]) /\ Le(r_E[k], Envelope)
        /\ Gt(w_EE, One) => MagnitudeIncreasing(i + 1)

\* WC_solver has returned four points for w_EE > 1 and a positive drive.
C10_Witness ==
    /\ pc = "returned"
    /\ SinglePopulation
    /\ Gt(w_EE, One) /\ Positive(I_E)
    /\ Len(T) = 4
    /\ Lt(Zero, r_E[2]) /\ Lt(r_E[2], r_E[3]) /\ Lt(r_E[3], r_E[4])

----------------------------------------------------------------------------
(* C11 *)

\* C11: with both drives zero and every weight zero, for tau_E, tau_I > 0 and
\* any dt and T_end, every entry of r_E and r_I, and of every row of the
\* state of WC_solver_MW, is exactly zero.
C11_ZeroStaysZero ==
    (AllWeightsZero /\ I_E = Zero /\ I_I = Zero /\ Positive(tau_E) /\ Positive(tau_I)) =>
        /\ Running =>
              \A k \in 1..Len(T) : r_E[k] = Zero /\ r_I[k] = Zero
        /\ Running_MW =>
              \A p \in 1..N : \A k \in 1..Len(T_MW) : r[p][k] = Zero

\* Both solvers have returned after three steps with zero drives and zero
\* weights, for a step larger than both time constants.
C11_Witness ==
    /\ pc = "returned" /\ pc_MW = "returned"
    /\ AllWeightsZero /\ I_E = Zero /\ I_I = Zero
    /\ i = 3 /\ i_MW = 3
    /\ Lt(tau_E, dt) /\ Lt(tau_I, dt)
    /\ r_E[4] = Zero /\ r[2][4] = Zero

----------------------------------------------------------------------------
(* C13 *)

\* Every entry of a equals the first.
Constant(a) == \A j \in 1..Len(a) : a[j] = a[1]

\* The sum of the first n entries of a.
RECURSIVE Total(_, _)
Total(a, n) == IF n = 0 THEN Zero ELSE Add(Total(a, n - 1), a[n])

\* The sum of |c[k]|^2 over the first n entries of the complex array c.
RECURSIVE Energy(_, _)
Energy(c, n) == IF n = 0 THEN Zero ELSE Add(Energy(c, n - 1), np_abs(c[n]).sqrt)

\* The sum over the first n entries of a of (a[k] - m)^2.
RECURSIVE Spread(_, _, _)
Spread(a, m, n) ==
    IF n = 0 THEN Zero
    ELSE Add(Spread(a, m, n - 1), Mul(Sub(a[n], m), Sub(a[n], m)))

\* The energy of the signal with its mean taken off.
DemeanedEnergy(a) == Spread(a, Div(Total(a, Len(a)), Num(Len(a))), Len(a))

\* C13: the peak frequency and the peak magnitude FF returns are those of
\* one bin k, whose magnitude no bin exceeds and every lower-index bin is
\* strictly below (bin 0 takes part in the search); X is a transform of the
\* de-meaned signal (its bin 0 vanishes and its energy is len(x0) times the
\* energy of the de-meaned signal); for a constant signal the peak is bin 0,
\* at frequency 0 with magnitude 0.
C13_PeakIsFirstLargestBin ==
    pc_FF = "returned" =>
        /\ Len(X) = Len(x0) /\ Len(freqs) = Len(x0)
        /\ X[1] = <<Zero, Zero>>
        /\ Energy(X, Len(X)) = Mul(Num(Len(x0)), DemeanedEnergy(x0))
        /\ freqs[1] = Zero
        /\ \E k \in 1..Len(X) :
              /\ \A j \in 1..Len(X) : ~MagLt(np_abs(X[k]), np_abs(X[j]))
              /\ \A j \in 1..(k - 1) : MagLt(np_abs(X[j]), np_abs(X[k]))
              /\ max_freq = freqs[k]
              /\ max_mag = np_abs(X[k])
        /\ Constant(x0) => (max_freq = Zero /\ max_mag = Sqrt(Zero))

\* FF has returned on a signal of four points whose largest bins are bin 1
\* and its mirror bin 3, with a smaller bin 2 in between: the peak reported is
\* bin 1, at a quarter of the sampling frequency.
C13_Witness ==
    /\ pc_FF = "returned"
    /\ Len(x0) = 4
    /\ np_abs(X[4]) = np_abs(X[2])
    /\ MagLt(np_abs(X[3]), np_abs(X[2]))
    /\ MagLt(Sqrt(Zero), np_abs(X[3]))
    /\ max_freq = freqs[2]
    /\ max_freq = Div(Num(250), dt)
    /\ max_mag = np_abs(X[2])

----------------------------------------------------------------------------
(* C14 *)

\* C14: what FF returns depends on the arguments of the call alone: any two
\* calls on the same signal (FF takes the signal and the plotting flag, and
\* no sampling step) have returned the same frequency bins and the same peak
\* frequency, whatever was assigned to the notebook's dt between them.
C14_ResultDependsOnArgumentsOnly ==
    \A a \in 1..Len(returned_FF) : \A b \in 1..Len(returned_FF) :
        (returned_FF[a].x0 = returned_FF[b].x0
            /\ returned_FF[a].plotting = returned_FF[b].plotting) =>
            /\ returned_FF[a].freqs = returned_FF[b].freqs
            /\ returned_FF[a].max_freq = returned_FF[b].max_freq

----------------------------------------------------------------------------
(* C15 *)

\* C15: while WC_solver_MW runs and after it has returned, I, W and tau hold
\* the values they had when the call began; the array r of the call is none
\* of the arrays returned by earlier calls, and every trajectory returned by
\* an earlier call still holds the values it was returned with.
C15_InputsAndEarlierResultsUnchanged ==
    /\ pc_MW \in {"loop", "returned", "raised"} => <<I, W, tau>> = args_at_call
    /\ Running_MW => \A k \in 1..Len(kept) : kept[k].buf # r_buf
    /\ \A k \in 1..Len(kept) : kept[k].r = kept[k].at_return

\* A second call has returned a trajectory of two steps or more that differs
\* from the one the first call returned, which also took a step and moved.
C15_Witness ==
    /\ pc_MW = "returned"
    /\ Len(kept) = 1
    /\ i_MW >= 2
    /\ r # kept[1].r
    /\ kept[1].r # [p \in 1..N |-> zeros(Len(kept[1].r[1]))]
    /\ r[1][i_MW + 1] # Zero

----------------------------------------------------------------------------
(* C16 *)

\* A letter of the cipher's alphabet.
IsLetter(c) == 97 <= c /\ c <= 122

\* Decoding with the key of the encoding gives the lower-cased message back,
\* and neither step touches a character that is not a letter or changes the
\* length of the lower-cased message.
RoundTrip ==
    /\ decoded = lower(original)
    /\ Len(encoded) = Len(lower(original))
    /\ \A k \in 1..Len(encoded) :
          ~IsLetter(lower(original)[k]) => encoded[k] = lower(original)[k]
    /\ \A k \in 1..Len(encoded) :
          IsLetter(lower(original)[k]) => IsLetter(encoded[k])

\* C16 as stated: for every message and every shift from 0 to 25, decoding
\* the encoded message with the same shift gives the lower-cased message,
\* with every non-letter in place and the length of the message unchanged.
C16_RoundTripKeepsLength ==
    (pc_cipher = "done" /\ shift \in 0..25) =>
        /\ RoundTrip
        /\ Len(encoded) = Len(original)
        /\ Len(decoded) = Len(original)

\* C16, amended: the same, with the length of the lower-cased message
\* unchanged (lower-casing U+0130 gives two characters).
C16_RoundTripKeepsLowerCasedLength ==
    (pc_cipher = "done" /\ shift \in 0..25) =>
        /\ RoundTrip
        /\ Len(encoded) = Len(lower(original))
        /\ Len(decoded) = Len(lower(original))

\* The cell has decoded, with the shift of the notebook, a message of an
\* upper-case letter, a space and a lower-case letter that the shift has
\* wrapped past z; the encoded message differs from the lower-cased one.
C16_Witness ==
    /\ pc_cipher = "done"
    /\ shift = 15
    /\ original = <<90, 32, 109>>
    /\ encoded = <<111, 32, 98>>
    /\ decoded = <<122, 32, 109>>

----------------------------------------------------------------------------
(* C17 *)

\* C17: for every key that is a whole number >= 0, encode_ceasar returns,
\* and the letter at position p of the alphabet is encoded as the letter at
\* position (p + key) mod 26.
C17_EncodesForEveryKey ==
    (shift >= 0 /\ pc_cipher \in {"decode", "done", "raised"}) =>
        /\ pc_cipher # "raised"
        /\ Len(encoded) = Len(lower(original))
        /\ \A k \in 1..Len(encoded) :
              IsLetter(lower(original)[k]) =>
                  encoded[k] = 97 + ((lower(original)[k] - 97 + shift) % 26)

----------------------------------------------------------------------------
(* C18 *)

Max(a, b) == IF a >= b THEN a ELSE b

\* What a step of the notebook may do to WC_solver's arrays: a pass of the
\* loop is pass number i, with i < M - 1, moves i to i + 1 and changes r_E
\* and r_I at index i + 1 of the source alone; no other step changes them.
PassOrder ==
    /\ (pc = "loop" /\ pc' = "loop") =>
          /\ i < Len(T) - 1
          /\ i' = i + 1
          /\ T' = T
          /\ \A k \in 1..Len(T) :
                k # i + 2 => (r_E'[k] = r_E[k] /\ r_I'[k] = r_I[k])
    /\ (pc # "call" /\ ~(pc = "loop" /\ pc' = "loop")) =>
          (r_E' = r_E /\ r_I' = r_I /\ T' = T /\ i' = i)

\* The same for WC_solver_MW and the columns of r.
PassOrder_MW ==
    /\ (pc_MW = "loop" /\ pc_MW' = "loop") =>
          /\ i_MW < Len(T_MW) - 1
          /\ i_MW' = i_MW + 1
          /\ T_MW' = T_MW
          /\ \A p \in 1..N : \A k \in 1..Len(T_MW) :
                k # i_MW + 2 => r'[p][k] = r[p][k]
    /\ (pc_MW # "call" /\ ~(pc_MW = "loop" /\ pc_MW' = "loop")) =>
          (r' = r /\ T_MW' = T_MW /\ i_MW' = i_MW)

\* The number of passes made is within max(M - 1, 0), and is max(M - 1, 0)
\* at the return.
PassCount ==
    /\ pc = "loop" => i <= Max(Len(T) - 1, 0)
    /\ pc = "returned" => i = Max(Len(T) - 1, 0)
    /\ pc_MW = "loop" => i_MW <= Max(Len(T_MW) - 1, 0)
    /\ pc_MW = "returned" => i_MW = Max(Len(T_MW) - 1, 0)

\* The call of WC_solver raises: np.arange refuses a zero step, and a pass
\* divides by a zero time constant.
Raises ==
    IF dt = Zero THEN TRUE
    ELSE (tau_E = Zero \/ tau_I = Zero) /\ arange_len(T_end, dt) >= 2

----------------------------------------------------------------------------
(* C19 *)

\* The two populations of WC_solver are given the same drive, the same time
\* constant and the same row of weights.
Symmetric ==
    /\ I_E = I_I
    /\ tau_E = tau_I
    /\ w_EE = w_IE
    /\ w_EI = w_II

\* C19: when I_E = I_I, tau_E = tau_I, w_EE = w_IE and w_EI = w_II, the arrays
\* r_E and r_I of WC_solver agree at every time index, whatever dt and T_end,
\* while the loop runs and at the return.
C19_SymmetricPopulationsAgree ==
    (Running /\ Symmetric) =>
        /\ Len(r_E) = Len(r_I)
        /\ \A k \in 1..Len(r_E) : r_E[k] = r_I[k]

\* WC_solver has returned a symmetric run of three passes in which the
\* activity moved at every pass, with excitatory and inhibitory weights that
\* differ.
C19_Witness ==
    /\ pc = "returned"
    /\ Symmetric
    /\ w_EE # w_EI
    /\ i = 3
    /\ r_E[2] # r_E[1] /\ r_E[3] # r_E[2] /\ r_E[4] # r_E[3]
    /\ r_I[4] = r_E[4]

----------------------------------------------------------------------------
(* C20 *)

\* 0 < dt/tau <= 1 for both populations of WC_solver.
StepWithinTau ==
    /\ Positive(dt)
    /\ Le(dt, tau_E)
    /\ Le(dt, tau_I)

\* 0 < dt/tau[p] <= 1 for every population of WC_solver_MW.
StepWithinTau_MW ==
    /\ Positive(dt)
    /\ \A p \in 1..Len(tau) : Le(dt, tau[p])

\* The input of the excitatory population at index k of the source plus one.
NetInput_E(k) == Add(Add(Mul(w_EE, r_E[k]), Mul(w_EI, r_I[k])), I_E)

\* C20: if 0 < dt/tau <= 1 for every population, the activity of every
\* population is >= 0 at every time index, in WC_solver and in WC_solver_MW,
\* whatever the sign of the drives and of the weights.  With dt/tau > 1 a
\* negative activity is reached: an excitatory population that is active and
\* receives no input (its net input is <= 0) is negative one step later.
C20_NonNegativeForStepWithinTau ==
    /\ (Running /\ StepWithinTau) =>
          \A k \in 1..Len(T) : Le(Zero, r_E[k]) /\ Le(Zero, r_I[k])
    /\ (Running_MW /\ StepWithinTau_MW) =>
          \A p \in 1..N : \A k \in 1..Len(T_MW) : Le(Zero, r[p][k])
    /\ (Running /\ Positive(tau_E) /\ Lt(tau_E, dt)) =>
          \A k \in 1..i :
              (Positive(r_E[k]) /\ Le(NetInput_E(k), Zero)) => Lt(r_E[k + 1], Zero)

\* Both solvers have returned two passes or more with dt = tau_E, a negative
\* weight and a negative drive, in which the excitatory population was active
\* and then fell back to zero without going below it.
C20_Witness ==
    /\ pc = "returned" /\ pc_MW = "returned"
    /\ StepWithinTau /\ StepWithinTau_MW
    /\ dt = tau_E
    /\ i >= 2 /\ i_MW = i
    /\ Lt(w_EE, Zero) /\ Lt(I_I, Zero)
    /\ \E k \in 1..i : Positive(r_E[k]) /\ r_E[k + 1] = Zero
    /\ r = <<r_E, r_I>>

\* WC_solver has returned a trajectory with dt/tau_E > 1 that holds a negative
\* activity.
C20_NegativeReached ==
    /\ pc = "returned"
    /\ Positive(tau_E) /\ Lt(tau_E, dt)
    /\ \E k \in 1..Len(T) : Lt(r_E[k], Zero)

=============================================================================
